---- MODULE Spec2Model ----
(***************************************************************************)
(* A model of the numerical core of GROMACS_retinal:                       *)
(*   - wham.wham                 (src/wham.py)                             *)
(*   - the block bootstrap loop  (src/full_error_discrete.py)              *)
(*   - diffusion.compute         (src/Diffusion/calculate_diffusion.py)    *)
(*                                                                         *)
(* Arithmetic.  numpy works in IEEE doubles.  The WHAM iteration is        *)
(* modelled in binary fixed point with FracBits fractional bits and        *)
(* round-to-nearest after every multiplication and division: exact         *)
(* rationals outgrow TLC's 32-bit integers after two iterations.  Bias     *)
(* energies are integers in units of ln 2, so that exp(-b) = 2^-b is       *)
(* exactly representable.  A logarithm is kept as a pair (m, e) standing   *)
(* for ln(m) + e*ln 2 and is turned into a number only where the code      *)
(* does arithmetic on it (the residual eps, a sum of squares, which is     *)
(* kept unrounded with 2*FracBits fractional bits).                        *)
(***************************************************************************)
EXTENDS Integers, Sequences, FiniteSets, TLC

\* ------------------------------------------------------------------ bounds
FracBits == 10
MaxCells == 5
MaxBias == 1
MaxT == 2
MaxMaxiter == 3
\* full_error_discrete.py, scaled down: n umbrellas of NB blocks of BlockLen frames
NumUmbrellas == 2
NB == 2
BlockLen == 2
Ignored == 1
MaxCycles == 2
MaxSeed == 1
\* calculate_diffusion.py: series of 1..MaxLen positions in 0..MaxPos
MaxLen == 4
MaxPos == 1
MaxNsteps == 4

\* ------------------------------------------------------------- fixed point
RECURSIVE Pow2(_)
Pow2(k) == IF k <= 0 THEN 1 ELSE 2 * Pow2(k - 1)

Scale == Pow2(FracBits)
One == Scale

\* a/b rounded to the nearest integer (b > 0)
RoundDiv(a, b) == (2 * a + b) \div (2 * b)

FMul(a, b) == RoundDiv(a * b, Scale)
FDiv(a, b) == RoundDiv(a * Scale, b)
FromInt(k) == k * Scale

RECURSIVE SumSeq(_)
SumSeq(s) == IF Len(s) = 0 THEN 0 ELSE Head(s) + SumSeq(Tail(s))

RECURSIVE MinSeq(_)
MinSeq(s) == IF Len(s) = 1 THEN s[1]
             ELSE LET m == MinSeq(Tail(s)) IN IF s[1] < m THEN s[1] ELSE m

\* np.exp(-k) for k in units of ln 2
ExpNeg(k) == RoundDiv(One, Pow2(k))

\* np.log: ln(x) kept as ln(m) + e*ln 2
Log(v) == [m |-> v, e |-> 0]
LogAdd(l, k) == [m |-> l.m, e |-> l.e + k]

\* ln(r) for r > 0 from the series 2*atanh(s), s = (r-1)/(r+1), two terms
LnSeries(r) ==
    LET s  == FDiv(r - One, r + One)
        s3 == FMul(FMul(s, s), s)
    IN  2 * s + RoundDiv(2 * s3, 3)

\* the number a logarithm stands for
LogNum(l) == LnSeries(l.m) + l.e * LnSeries(2 * One)

\* A square of a fixed-point number is kept unrounded, in units of 1/EpsScale
EpsScale == Scale * Scale
Square(a) == a * a

\* eps < threshold, for eps >= 0 in units of 1/EpsScale and threshold = thr.n/thr.d
LessThr(eps, thr) ==
    IF eps <= 0 THEN eps < 0 \/ thr.n > 0
    ELSE thr.n > 0 /\ thr.d <= (thr.n * EpsScale - 1) \div eps

\* ------------------------------------------------------------ wham (wham.py)
NoneArg == [given |-> FALSE, v |-> <<>>]
Given(v) == [given |-> TRUE, v |-> v]

\* the default threshold of wham(), 1e-8
DefaultThreshold == [n |-> 1, d |-> 100000000]

\* lines 33-60: shapes, default weights, stabilisation, exponentials, Z = 1
WhamSetup(a) ==
    LET nframes == Len(a.bias)
        ntraj   == Len(a.bias[1])
        fw == IF a.frame_weight.given THEN a.frame_weight.v
              ELSE [f \in 1..nframes |-> One]
        tw == IF a.traj_weight.given THEN a.traj_weight.v
              ELSE [t \in 1..ntraj |-> One]
        b0 == [f \in 1..nframes |-> [t \in 1..ntraj |-> a.bias[f][t] \div a.T]]
        shifts0 == [t \in 1..ntraj |-> MinSeq([f \in 1..nframes |-> b0[f][t]])]
        b1 == [f \in 1..nframes |-> [t \in 1..ntraj |-> b0[f][t] - shifts0[t]]]
        shifts1 == [f \in 1..nframes |-> MinSeq(b1[f])]
        b2 == [f \in 1..nframes |-> [t \in 1..ntraj |-> b1[f][t] - shifts1[f]]]
    IN  [ nframes |-> nframes, ntraj |-> ntraj,
          frame_weight |-> fw, traj_weight |-> tw,
          assertOk |-> Len(tw) = ntraj /\ Len(fw) = nframes,
          shifted_bias |-> b2, shifts0 |-> shifts0, shifts1 |-> shifts1,
          expv |-> [f \in 1..nframes |-> [t \in 1..ntraj |-> ExpNeg(b2[f][t])]],
          Z    |-> [t \in 1..ntraj |-> One],
          Zold |-> [t \in 1..ntraj |-> One],
          weight |-> <<>>, eps |-> 0, nit |-> 0,
          bound |-> {}, it |-> 0 ]

\* a variant of line 69 that drops the factor frame_weight
WhamWeightNoFrameWeight(l) ==
    LET tz == [t \in 1..l.ntraj |-> FDiv(l.traj_weight[t], l.Z[t])]
    IN  [f \in 1..l.nframes |->
            FDiv(One, SumSeq([t \in 1..l.ntraj |-> FMul(l.expv[f][t], tz[t])]))]

\* line 69: weight = 1.0/np.matmul(expv, traj_weight/Z)*frame_weight
WhamWeight(l) ==
    LET tz == [t \in 1..l.ntraj |-> FDiv(l.traj_weight[t], l.Z[t])]
    IN  [f \in 1..l.nframes |->
            FMul(FDiv(One, SumSeq([t \in 1..l.ntraj |-> FMul(l.expv[f][t], tz[t])])),
                 l.frame_weight[f])]

\* lines 72-75: Z = np.matmul(weight, expv); Z /= np.sum(Z*traj_weight)
WhamZ(l, weight) ==
    LET Zr == [t \in 1..l.ntraj |->
                 SumSeq([f \in 1..l.nframes |-> FMul(weight[f], l.expv[f][t])])]
        norm == SumSeq([t \in 1..l.ntraj |-> FMul(Zr[t], l.traj_weight[t])])
    IN  [t \in 1..l.ntraj |-> FDiv(Zr[t], norm)]

\* line 78: eps = np.sum(np.log(Z/Zold)**2)
WhamEps(Z, Zold) ==
    SumSeq([t \in 1..Len(Z) |->
              Square(LogNum(Log(FDiv(Z[t], Zold[t]))))])

\* a variant of line 88 with the comparison inverted
WhamConvergedInverted(eps, thr) == ~LessThr(eps, thr)

\* line 88: if eps < threshold: break
WhamConverged(eps, thr) == LessThr(eps, thr)

\* a variant of the loop body that counts the iterations run (nit from 1)
WhamIterCountsRuns(l) ==
    LET weight == WhamWeight(l)
        Z      == WhamZ(l, weight)
        eps    == WhamEps(Z, l.Zold)
    IN  [l EXCEPT !.nit = l.it + 1, !.it = l.it + 1,
                  !.weight = weight, !.Z = Z, !.eps = eps, !.Zold = Z,
                  !.bound = {"nit", "weight", "eps"}]

\* lines 67-81: the body of the loop for the next value of range(maxiter)
WhamIter(l) ==
    LET weight == WhamWeight(l)
        Z      == WhamZ(l, weight)
        eps    == WhamEps(Z, l.Zold)
    IN  [l EXCEPT !.nit = l.it, !.it = l.it + 1,
                  !.weight = weight, !.Z = Z, !.eps = eps, !.Zold = Z,
                  !.bound = {"nit", "weight", "eps"}]

\* line 92 reads nit, line 95 reads weight, line 102 reads eps
WhamReturnOk(l) == {"nit", "weight", "eps"} \subseteq l.bound

\* a variant of lines 95-102 that does not carry shifts0 back into logZ
WhamResultNoShift0(l) ==
    [ logW |-> [f \in 1..l.nframes |-> LogAdd(Log(l.weight[f]), l.shifts1[f])],
      logZ |-> [t \in 1..l.ntraj |-> Log(l.Z[t])],
      nit  |-> l.nit,
      eps  |-> l.eps ]

\* lines 95-102: the returned dictionary
WhamResult(l) ==
    [ logW |-> [f \in 1..l.nframes |-> LogAdd(Log(l.weight[f]), l.shifts1[f])],
      logZ |-> [t \in 1..l.ntraj |-> LogAdd(Log(l.Z[t]), -l.shifts0[t])],
      nit  |-> l.nit,
      eps  |-> l.eps ]

\* exp of a logarithm (what the callers do with logW), m * 2^e in fixed point
ExpLog(l) == IF l.e >= 0 THEN l.m * Pow2(l.e) ELSE RoundDiv(l.m, Pow2(-l.e))

\* ------------------------------------------------------------------- state
VARIABLES
    args,    \* wham: the arguments of the running call
    loc,     \* wham: its local variables (bound = the names assigned so far)
    pc,      \* wham: "start", "loop", "after", "returned", "raised"
    ret,     \* wham: what the call returned or raised
    hist,    \* history: the eps of every iteration the call executed
    call,    \* caller: 1 for the call on B, 2 for the call on the shifted B
    shift,   \* caller: the constant c_t added to column t for the second call
    base,    \* caller: what the call on B returned; history: its stabilised matrix
    \* full_error_discrete.py
    cycles,  \* the configured number of bootstrap cycles
    seed,    \* which input data set the ALLCOLVAR files hold
    bpc,     \* "load", "loop", "done", "aborted"
    i,       \* the loop variable of the bootstrap loop
    c,       \* the block indices drawn in the last cycle
    rbias,   \* for each row of the resampled bias matrix, the original row it holds
    tr,      \* for each entry of the resampled phi series, the original row it holds
    popA, popB, deltaF, ff,   \* the lists accumulated over the cycles
    fes,     \* the file temp_fes_phi_catr_discrete.dat
    outcomes,\* history: what the reweighting driver did in each cycle
    errs,    \* error_popA, error_popB, error_deltaF, error_ff
    w0,      \* the WHAM result and the observables of the original data
    \* calculate_diffusion.py
    x,       \* the position series passed to compute
    Nsteps,  \* self.Nsteps
    dpc,     \* compute: "start", "correlated", "crossed", "returned", "raised"
    varx,    \* compute: the sample variance
    C,       \* compute: the retained, normalised correlation sequence
    h,       \* compute: the index of the first negative entry of C
    dout     \* what compute returned or raised

whamVars == <<args, loc, pc, ret, hist, call, shift, base>>
bootVars == <<cycles, seed, bpc, i, c, rbias, tr, popA, popB, deltaF, ff, fes, outcomes, errs, w0>>
diffVars == <<x, Nsteps, dpc, varx, C, h, dout>>
vars == <<whamVars, bootVars, diffVars>>

\* ------------------------------------------------------------------ inputs
\* frames x trajectories, frames >= trajectories >= 1
Shapes == {s \in (1..MaxCells) \X (1..MaxCells) : s[1] * s[2] <= MaxCells /\ s[1] >= s[2]}

\* bias energies are multiples of T*ln 2, so that bias/T is a whole number of ln 2
BiasMatrices(T) ==
    UNION {[1..s[1] -> [1..s[2] -> {T * k : k \in 0..MaxBias}]] : s \in Shapes}

\* the end-to-end scenario: 2 trajectories of 4 frames each, all-zero bias
ZeroBias == [f \in 1..8 |-> [t \in 1..2 |-> 0]]

FrameWeights(F) == {NoneArg, Given([f \in 1..F |-> FromInt(f)])}
TrajWeights(N) == {NoneArg, Given([t \in 1..N |-> FromInt(t + 1)])}
Thresholds == {DefaultThreshold, [n |-> 1, d |-> 4]}

NoLoc == [bound |-> {}, it |-> 0]
NoVal == [logW |-> <<>>, logZ |-> <<>>, nit |-> 0, eps |-> 0]
NoRet == [ok |-> FALSE, exc |-> "", val |-> NoVal]
NoBase == [ret |-> NoRet, shifted_bias |-> <<>>]

\* the other two programs are not running
BootIdle ==
    /\ cycles = 0 /\ seed = 0 /\ bpc = "idle" /\ i = 0 /\ c = <<>> /\ rbias = <<>> /\ tr = <<>>
    /\ popA = <<>> /\ popB = <<>> /\ deltaF = <<>> /\ ff = <<>>
    /\ fes = [kind |-> "absent", cycle |-> 0] /\ outcomes = <<>> /\ errs = <<>> /\ w0 = <<>>

DiffIdle ==
    /\ x = <<>> /\ Nsteps = 0 /\ dpc = "idle"
    /\ varx = [n |-> 0, d |-> -1] /\ C = <<>> /\ h = -1 /\ dout = [kind |-> "none"]

InitCall(a, cs) ==
    /\ args = a
    /\ loc = NoLoc
    /\ pc = "start"
    /\ ret = NoRet
    /\ hist = <<>>
    /\ call = 1
    /\ shift = cs
    /\ base = NoBase
    /\ BootIdle
    /\ DiffIdle

InitWham ==
    \E T \in 1..MaxT :
    \E b \in BiasMatrices(T) \cup {ZeroBias} :
    \E fw \in FrameWeights(Len(b)), tw \in TrajWeights(Len(b[1])) :
    \E mi \in 0..MaxMaxiter, th \in Thresholds :
        InitCall([bias |-> b, frame_weight |-> fw, traj_weight |-> tw, T |-> T,
                  maxiter |-> mi, threshold |-> th], <<>>)

\* ----------------------------------------------------------------- actions
\* lines 33-64
WhamEnter ==
    /\ pc = "start"
    /\ loc' = WhamSetup(args)
    /\ IF loc'.assertOk
       THEN pc' = "loop" /\ ret' = ret
       ELSE pc' = "raised" /\ ret' = [ok |-> FALSE, exc |-> "AssertionError", val |-> NoVal]
    /\ UNCHANGED <<args, hist, call, shift, base>>
    /\ UNCHANGED <<bootVars, diffVars>>

\* lines 67-89: one pass of the loop body, and the break
WhamIterate ==
    /\ pc = "loop"
    /\ loc.it < args.maxiter
    /\ loc' = WhamIter(loc)
    /\ hist' = Append(hist, loc'.eps)
    /\ pc' = IF WhamConverged(loc'.eps, args.threshold) THEN "after" ELSE "loop"
    /\ UNCHANGED <<args, ret, call, shift, base>>
    /\ UNCHANGED <<bootVars, diffVars>>

\* line 67: range(maxiter) is exhausted
WhamExhaust ==
    /\ pc = "loop"
    /\ loc.it >= args.maxiter
    /\ pc' = "after"
    /\ UNCHANGED <<args, loc, ret, hist, call, shift, base>>
    /\ UNCHANGED <<bootVars, diffVars>>

\* lines 92-102: reading a name the loop never bound raises
WhamReturn ==
    /\ pc = "after"
    /\ IF WhamReturnOk(loc)
       THEN pc' = "returned" /\ ret' = [ok |-> TRUE, exc |-> "", val |-> WhamResult(loc)]
       ELSE pc' = "raised" /\ ret' = [ok |-> FALSE, exc |-> "UnboundLocalError", val |-> NoVal]
    /\ UNCHANGED <<args, loc, hist, call, shift, base>>
    /\ UNCHANGED <<bootVars, diffVars>>

NextWham == WhamEnter \/ WhamIterate \/ WhamExhaust \/ WhamReturn

SpecWham == InitWham /\ [][NextWham]_vars

\* The caller of the shift-invariance property: wham on B, then wham on B with
\* shift[t] added to every entry of column t, all other arguments the same.
ShiftLevels == {-1, 0, 1}

InitShift ==
    \E T \in 1..MaxT :
    \E b \in BiasMatrices(T) :
    \E cs \in [1..Len(b[1]) -> {T * k : k \in ShiftLevels}] :
    \E mi \in 0..MaxMaxiter :
        InitCall([bias |-> b, frame_weight |-> NoneArg, traj_weight |-> NoneArg,
                  T |-> T, maxiter |-> mi, threshold |-> DefaultThreshold], cs)

ShiftedBias(b, cs) == [f \in 1..Len(b) |-> [t \in 1..Len(b[f]) |-> b[f][t] + cs[t]]]

ShiftedCall ==
    /\ pc = "returned"
    /\ call = 1
    /\ base' = [ret |-> ret, shifted_bias |-> loc.shifted_bias]
    /\ args' = [args EXCEPT !.bias = ShiftedBias(args.bias, shift)]
    /\ call' = 2
    /\ pc' = "start"
    /\ loc' = NoLoc
    /\ ret' = NoRet
    /\ hist' = <<>>
    /\ UNCHANGED shift
    /\ UNCHANGED <<bootVars, diffVars>>

NextShift == NextWham \/ ShiftedCall

SpecShift == InitShift /\ [][NextShift]_vars

\* ---------------------------------------------------------- claims on wham
NeverBelow(es, thr) == \A k \in 1..Len(es) : ~LessThr(es[k], thr)
Finished == pc \in {"returned", "raised"}

\* C1: when the loop ends without eps < threshold ever having held, wham
\* returns a result record holding the last computed state and does not raise
\* (the claim as stated, for every maxiter >= 0).
C1_ReturnsWhenNotConverged ==
    (Finished /\ NeverBelow(hist, args.threshold)) =>
        /\ pc = "returned"
        /\ ret.ok
        /\ ret.val.eps = loc.eps
        /\ ret.val.nit = loc.nit

C3_ShiftInvariance ==
    (call = 2 /\ pc = "returned") =>
        /\ loc.shifted_bias = base.shifted_bias
        /\ ret.val.logW = base.ret.val.logW
        /\ ret.val.nit = base.ret.val.nit
        /\ ret.val.eps = base.ret.val.eps
        /\ \A t \in 1..loc.ntraj :
             /\ ret.val.logZ[t].m = base.ret.val.logZ[t].m
             /\ ret.val.logZ[t].e * args.T = base.ret.val.logZ[t].e * args.T - shift[t]

C3_Witness ==
    /\ call = 2
    /\ pc = "returned"
    /\ loc.ntraj = 2
    /\ shift[1] > 0
    /\ shift[2] < 0
    /\ args.T = 2
    /\ ret.val.nit >= 1
    /\ \E f \in 1..loc.nframes : loc.shifted_bias[f][1] # loc.shifted_bias[f][2]

SingleTrajectory == Len(args.bias[1]) = 1 /\ ~args.traj_weight.given

\* C4 as stated: with one trajectory and the default trajectory weight, wham
\* converges after at most 1 iteration and exp(logW[f]) = frameWeight[f] / sum(frameWeight).
C4_SingleTrajectoryNormalised ==
    (pc = "returned" /\ SingleTrajectory) =>
        /\ ret.val.nit = 0
        /\ \A f \in 1..loc.nframes :
             ExpLog(ret.val.logW[f]) = FDiv(loc.frame_weight[f], SumSeq(loc.frame_weight))

\* C4 amended: with one trajectory, the default trajectory weight, maxiter >= 1
\* and a positive threshold, wham stops at the first iteration (nit = 0, eps = 0)
\* and exp(logW[f]) = frameWeight[f] * exp((B[f] - min B)/T): not normalised,
\* and proportional to frameWeight only where the bias is the same.
C4_SingleTrajectoryUnbiased ==
    (Finished /\ SingleTrajectory /\ args.maxiter >= 1) =>
        /\ pc = "returned"
        /\ ret.val.nit = 0
        /\ ret.val.eps = 0
        /\ \A f \in 1..loc.nframes :
             ExpLog(ret.val.logW[f]) =
                 loc.frame_weight[f] *
                 Pow2((args.bias[f][1] - MinSeq([g \in 1..loc.nframes |-> args.bias[g][1]]))
                        \div args.T)

C4_Witness ==
    /\ pc = "returned"
    /\ SingleTrajectory
    /\ args.frame_weight.given
    /\ loc.nframes >= 3
    /\ args.T = 2
    /\ args.bias[1][1] # args.bias[2][1]

EndToEnd ==
    /\ args.bias = ZeroBias
    /\ args.T = 1
    /\ args.threshold = DefaultThreshold
    /\ ~args.frame_weight.given
    /\ ~args.traj_weight.given

\* C5 as stated: on the all-zero 8 x 2 bias matrix, T = 1, threshold 1e-8, wham
\* converges in 1 iteration, every exp(logW[f]) is 1/8 and every Z is 1.
C5_ZeroBiasEighth ==
    (pc = "returned" /\ EndToEnd /\ args.maxiter >= 2) =>
        /\ Len(hist) = 1
        /\ \A f \in 1..8 : ExpLog(ret.val.logW[f]) = One \div 8
        /\ \A t \in 1..2 : ExpLog(ret.val.logZ[t]) = One

\* C5 amended: on that input and with maxiter >= 2, wham converges at its second
\* iteration (nit = 1, eps = 0), every exp(logW[f]) is 1/4 and every Z is 1/2
\* (logZ = [log(1/2), log(1/2)]).
C5_ZeroBiasQuarter ==
    (Finished /\ EndToEnd /\ args.maxiter >= 2) =>
        /\ pc = "returned"
        /\ Len(hist) = 2
        /\ ret.val.nit = 1
        /\ ret.val.eps = 0
        /\ \A f \in 1..8 : ExpLog(ret.val.logW[f]) = One \div 4
        /\ \A t \in 1..2 : ExpLog(ret.val.logZ[t]) = One \div 2

C5_Witness == pc = "returned" /\ EndToEnd /\ args.maxiter >= 2 /\ Len(ret.val.logW) = 8

\* ---------------------------------------------- wham as one call (callers)
\* the default of maxiter
DefaultMaxiter == 5000

\* lines 67-89 run to the end of the loop
RECURSIVE WhamLoop(_, _)
WhamLoop(l, a) ==
    IF l.it >= a.maxiter THEN l
    ELSE LET l2 == WhamIter(l)
         IN  IF WhamConverged(l2.eps, a.threshold) THEN l2 ELSE WhamLoop(l2, a)

\* wham(bias, T=T, threshold=threshold): lines 33-102
WhamCall(bias, T, threshold) ==
    LET a == [bias |-> bias, frame_weight |-> NoneArg, traj_weight |-> NoneArg,
              T |-> T, maxiter |-> DefaultMaxiter, threshold |-> threshold]
    IN  WhamResult(WhamLoop(WhamSetup(a), a))

\* ------------------------------- the bootstrap (full_error_discrete.py)
\* line 32: kBT, in the energy unit of the bias
kBT == MaxT
\* line 33
traj_len == NB * BlockLen
TailRows == NumUmbrellas * traj_len
TotalRows == Ignored + TailRows
\* lines 115-116: the cis/trans boundary |phi| = 1.6, in tenths of a radian
PhiCut == 16

Abs(v) == IF v < 0 THEN -v ELSE v

\* The input data (lines 52-66).  Row r of the ALLCOLVAR files is a frame at
\* one of the umbrella positions 0..n-1; seed picks the data set.
Position(d, r) ==
    LET k == IF r < Ignored THEN 0 ELSE r - Ignored
    IN  ((k \div traj_len) + ((k * (d + 2)) \div 3)) % NumUmbrellas
\* col0.phi, in tenths of a radian
Phi(d, r) == 20 * Position(d, r) - 20
\* bias[r, t], the restraint of umbrella t on frame r
BiasAt(d, r, t) == kBT * Abs(Position(d, r) - t)

\* Arrays are functions of 0-based indices.  The resampling is followed on the
\* array of row numbers: what numpy does to the rows it does to their numbers.
RowIds == [r \in 0..(TotalRows - 1) |-> r]
\* a[-n*traj_len:]
LastRows(a) == [k \in 0..(TailRows - 1) |-> a[TotalRows - TailRows + k]]
\* .reshape((n,-1,...)).reshape((n,NB,traj_len//NB,...))
Blocks(a) ==
    [u \in 0..(NumUmbrellas - 1) |->
        [b \in 0..(NB - 1) |->
            [j \in 0..(traj_len \div NB - 1) |-> a[(u * NB + b) * (traj_len \div NB) + j]]]]
\* a[:,cd,...]
TakeBlocks(a, cd) == [u \in DOMAIN a |-> [p \in 0..(NB - 1) |-> a[u][cd[p]]]]
\* .reshape((-1,n)) of the blocks of rows, .flatten() of the blocks of phi
Flatten(a) ==
    [k \in 0..(TailRows - 1) |->
        a[k \div traj_len][(k % traj_len) \div (traj_len \div NB)][k % (traj_len \div NB)]]

\* lines 82-83
bb == Blocks(LastRows(RowIds))
cc == Blocks(LastRows(RowIds))

\* line 108: np.random.choice(NB,NB)
Draws == [0..(NB - 1) -> 0..(NB - 1)]

\* line 110: bb[:,c,:,:].reshape((-1,n))
ResampleBias(cd) == Flatten(TakeBlocks(bb, cd))
\* a variant of line 113 that leaves the phi series as it was (line 85)
ResamplePhiNotResampled(cd) == Flatten(cc)
\* line 113: cc[:,c,:].flatten()
ResamplePhi(cd) == Flatten(TakeBlocks(cc, cd))

IsInB(phi) == phi > -PhiCut /\ phi < PhiCut
IsInA(phi) == phi <= -PhiCut \/ phi >= PhiCut

\* np.average(ind, weights=wt) for an indicator ind
Average(ind, wt) ==
    FDiv(SumSeq([k \in 1..Len(wt) |-> IF ind[k] THEN wt[k] ELSE 0]), SumSeq(wt))

\* -kBT*np.log(pB/pA): pA = 0 gives log(inf), pB = 0 gives log(0)
DeltaF(pB, pA) ==
    IF pA = 0 THEN [kind |-> "-inf", v |-> 0]
    ELSE IF pB = 0 THEN [kind |-> "inf", v |-> 0]
    ELSE [kind |-> "fin", v |-> -kBT * LogNum(Log(FDiv(pB, pA)))]

\* lines 110-123 (and 89-93): WHAM on the rows rb, the observables on the phi of rows trs
CycleObs(d, rb, trs) ==
    LET w == WhamCall([k \in 1..TailRows |->
                          [t \in 1..NumUmbrellas |-> BiasAt(d, rb[k - 1], t - 1)]],
                      kBT, DefaultThreshold)
        wt == [k \in 1..TailRows |-> ExpLog(w.logW[k])]
        pA == Average([k \in 1..TailRows |-> IsInA(Phi(d, trs[k - 1]))], wt)
        pB == Average([k \in 1..TailRows |-> IsInB(Phi(d, trs[k - 1]))], wt)
    IN  [logW |-> w.logW, popA |-> pA, popB |-> pB, deltaF |-> DeltaF(pB, pA)]

\* the observables of every draw, computed once
ObsTable ==
    {[d |-> d, cd |-> cd, obs |-> CycleObs(d, ResampleBias(cd), ResamplePhi(cd))] :
        d \in 0..MaxSeed, cd \in Draws}
ObsOf(d, cd) == (CHOOSE e \in ObsTable : e.d = d /\ e.cd = cd).obs

\* Line 132, the reweighting driver, an external process.  It writes the curve
\* of this cycle's weights, or fails and leaves the old file, or fails after
\* moving the old file away, or writes a file that cannot be read.
DriverOutcomes == {"ok", "failed_kept", "failed_removed", "malformed"}
DriverWrites(old, oc, cyc) ==
    CASE oc = "ok" -> [kind |-> "curve", cycle |-> cyc]
      [] oc = "failed_kept" -> old
      [] oc = "failed_removed" -> [kind |-> "absent", cycle |-> 0]
      [] OTHER -> [kind |-> "malformed", cycle |-> cyc]

\* floor of the square root
RECURSIVE IsqrtIn(_, _, _)
IsqrtIn(v, lo, hi) ==
    IF lo >= hi THEN lo
    ELSE LET mid == (lo + hi + 1) \div 2
         IN  IF mid <= v \div mid THEN IsqrtIn(v, mid, hi) ELSE IsqrtIn(v, lo, mid - 1)
Isqrt(v) == IF v <= 0 THEN 0 ELSE IsqrtIn(v, 1, v)

\* np.std of a list of numbers: nan for an empty list
Std(s) ==
    IF Len(s) = 0 THEN [kind |-> "nan", v |-> 0]
    ELSE LET mean == RoundDiv(SumSeq(s), Len(s))
             var  == RoundDiv(SumSeq([k \in 1..Len(s) |-> Square(s[k] - mean)]), Len(s))
         IN  [kind |-> "fin", v |-> Isqrt(var)]

\* np.std of the list deltaF, whose entries may be infinite
StdDeltaF(s) ==
    IF \E k \in 1..Len(s) : s[k].kind # "fin" THEN [kind |-> "nan", v |-> 0]
    ELSE Std([k \in 1..Len(s) |-> s[k].v])

InitBoot ==
    /\ cycles \in 0..MaxCycles
    /\ seed \in 0..MaxSeed
    /\ fes \in {[kind |-> "absent", cycle |-> 0], [kind |-> "curve", cycle |-> -1]}
    /\ bpc = "load"
    /\ i = 0
    /\ c = <<>> /\ rbias = <<>> /\ tr = <<>>
    /\ popA = <<>> /\ popB = <<>> /\ deltaF = <<>> /\ ff = <<>>
    /\ outcomes = <<>> /\ errs = <<>> /\ w0 = <<>>
    /\ args = [maxiter |-> 0] /\ loc = NoLoc /\ pc = "idle" /\ ret = NoRet
    /\ hist = <<>> /\ call = 0 /\ shift = <<>> /\ base = NoBase
    /\ DiffIdle

\* lines 42-102: load the data, split it in blocks, WHAM on the original data
BootLoad ==
    /\ bpc = "load"
    /\ w0' = CycleObs(seed, Flatten(bb), Flatten(cc))
    /\ bpc' = "loop"
    /\ UNCHANGED <<cycles, seed, i, c, rbias, tr, popA, popB, deltaF, ff, fes, outcomes, errs>>
    /\ UNCHANGED <<whamVars, diffVars>>

\* lines 104-147: one bootstrap cycle; i is the next value of range(cycles).
\* Reading a missing or malformed file at line 137 raises, and nothing catches it.
BootCycle ==
    /\ bpc = "loop"
    /\ i < cycles
    /\ \E cd \in Draws, oc \in DriverOutcomes :
          /\ c' = cd
          /\ rbias' = ResampleBias(cd)
          /\ tr' = ResamplePhi(cd)
          /\ LET obs == ObsOf(seed, cd)
             IN  /\ popA' = Append(popA, obs.popA)
                 /\ popB' = Append(popB, obs.popB)
                 /\ deltaF' = Append(deltaF, obs.deltaF)
          /\ fes' = DriverWrites(fes, oc, i)
          /\ outcomes' = Append(outcomes, oc)
    /\ IF fes'.kind = "curve"
       THEN ff' = Append(ff, fes') /\ i' = i + 1 /\ bpc' = "loop"
       ELSE ff' = ff /\ i' = i /\ bpc' = "aborted"
    /\ UNCHANGED <<cycles, seed, errs, w0>>
    /\ UNCHANGED <<whamVars, diffVars>>

\* lines 149-181: save the lists, take the standard deviations
BootAggregate ==
    /\ bpc = "loop"
    /\ i >= cycles
    /\ errs' = [popA |-> Std(popA), popB |-> Std(popB), deltaF |-> StdDeltaF(deltaF),
                ff |-> [kind |-> IF Len(ff) = 0 THEN "nan" ELSE "fin", over |-> ff]]
    /\ bpc' = "done"
    /\ UNCHANGED <<cycles, seed, i, c, rbias, tr, popA, popB, deltaF, ff, fes, outcomes, w0>>
    /\ UNCHANGED <<whamVars, diffVars>>

NextBoot == BootLoad \/ BootCycle \/ BootAggregate

SpecBoot == InitBoot /\ [][NextBoot]_vars

\* ------------------------------- claims about the bootstrap
CycleRan == Len(outcomes) >= 1

\* C6: in every cycle one block index sequence c of length NB over 0..NB-1 is
\* applied to all n trajectories and to both the bias rows and the phi series:
\* the resampled data has as many frames as the original, row k of the bias
\* and entry k of phi come from the same original frame, that frame lies in
\* block c[p] of the same trajectory, and the order inside a block is kept.
C6_BlockResampling ==
    CycleRan =>
        /\ c \in Draws
        /\ DOMAIN rbias = 0..(TailRows - 1)
        /\ DOMAIN tr = DOMAIN rbias
        /\ \A k \in DOMAIN rbias :
              LET u == k \div traj_len
                  p == (k % traj_len) \div BlockLen
                  j == (k % traj_len) % BlockLen
              IN  /\ rbias[k] = tr[k]
                  /\ rbias[k] = Ignored + (u * NB + c[p]) * BlockLen + j

\* a cycle has run whose draw repeats a block and is not the identity
C6_Witness == CycleRan /\ c[0] = 1 /\ c[1] = 1

\* C7: a failure of the driver round-trip does not abort the run, and every
\* recorded curve is the curve the driver wrote in the cycle that recorded it.
C7_DriverFailureContained ==
    /\ bpc # "aborted"
    /\ \A k \in 1..Len(ff) : ff[k].cycle = k - 1

\* C9: with fewer than 2 cycles configured no cycle is run and no standard
\* deviation is taken.
C9_FewCyclesRejected == cycles < 2 => (~CycleRan /\ bpc # "done")

\* ------------------------------- the diffusion estimator (calculate_diffusion.py)
\* Numbers are exact fractions [n, d] with d >= 0; d = 0 holds the values a
\* floating-point division by zero gives: inf (n = 1), -inf (n = -1), nan (n = 0).
Sign(v) == IF v > 0 THEN 1 ELSE IF v < 0 THEN -1 ELSE 0
Rat(n, d) ==
    IF d = 0 THEN [n |-> Sign(n), d |-> 0]
    ELSE IF d < 0 THEN [n |-> -n, d |-> -d]
    ELSE [n |-> n, d |-> d]
NaN == Rat(0, 0)
IsNaN(q) == q.d = 0 /\ q.n = 0
IsFinite(q) == q.d > 0
\* a / b
RDiv(a, b) ==
    IF IsNaN(a) \/ IsNaN(b) THEN NaN
    ELSE IF a.d = 0 /\ b.d = 0 THEN NaN
    ELSE IF a.d = 0 THEN Rat(a.n * (IF b.n < 0 THEN -1 ELSE 1), 0)
    ELSE IF b.d = 0 THEN Rat(0, 1)
    ELSE IF b.n = 0 THEN Rat(a.n, 0)
    ELSE Rat(a.n * b.d, a.d * b.n)
\* a * b
RMul(a, b) ==
    IF IsNaN(a) \/ IsNaN(b) THEN NaN
    ELSE IF a.d = 0 \/ b.d = 0
         THEN (IF a.n = 0 \/ b.n = 0 THEN NaN ELSE Rat(Sign(a.n) * Sign(b.n), 0))
    ELSE Rat(a.n * b.n, a.d * b.d)
\* a + b
RAdd(a, b) ==
    IF IsNaN(a) \/ IsNaN(b) THEN NaN
    ELSE IF a.d = 0 /\ b.d = 0 THEN (IF a.n = b.n THEN a ELSE NaN)
    ELSE IF a.d = 0 THEN a
    ELSE IF b.d = 0 THEN b
    ELSE IF a.d = b.d THEN Rat(a.n + b.n, a.d)
    ELSE IF a.n = 0 THEN b
    ELSE IF b.n = 0 THEN a
    ELSE Rat(a.n * b.d + b.n * a.d, a.d * b.d)
\* a < 0 and a = b as numpy compares them: every comparison with nan is False
RNeg(a) == ~IsNaN(a) /\ a.n < 0
REq(a, b) ==
    /\ ~IsNaN(a) /\ ~IsNaN(b)
    /\ IF a.d = 0 \/ b.d = 0 THEN a = b ELSE a.n * b.d = b.n * a.d

\* lines 28-29
dt == [n |-> 1, d |-> 500]
stride == 1

\* line 78 and the x - avgx of line 80, times len(x) to stay in the integers
Centered(xs) == [k \in 1..Len(xs) |-> Len(xs) * xs[k] - SumSeq(xs)]
\* line 77: np.var(x, ddof = 1), nan for a single point
Var(xs) ==
    Rat(SumSeq([k \in 1..Len(xs) |-> Centered(xs)[k] * Centered(xs)[k]]),
        Len(xs) * Len(xs) * (Len(xs) - 1))
\* the autocorrelation of the centered series at one lag, times len(x)^2
AutoCorr(xs, lag) ==
    LET y == Centered(xs)
        m == Abs(lag)
    IN  IF m >= Len(xs) THEN 0
        ELSE SumSeq([k \in 1..(Len(xs) - m) |-> y[k + m] * y[k]])
\* line 80: np.correlate(a, a, mode='full'); entry j is the lag j - (len(x) - 1)
Correlate(xs) == [j \in 0..(2 * Len(xs) - 2) |-> AutoCorr(xs, j - (Len(xs) - 1))]

\* line 81, the slice C[self.Nsteps - 1 :: -1]: from index Nsteps - 1, or from
\* the last index when that is beyond it, down to index 0
SliceBack(a, start) ==
    LET last == IF start \in DOMAIN a THEN start ELSE Cardinality(DOMAIN a) - 1
    IN  [k \in 0..last |-> a[last - k]]
\* line 81, the divisor C[self.Nsteps - 1]: an index beyond the array raises
DivisorInRange(a, idx) == idx \in DOMAIN a
\* line 81
Normalised(xs, steps) ==
    LET full == Correlate(xs)
        kept == SliceBack(full, steps - 1)
    IN  [k \in DOMAIN kept |-> RDiv(Rat(kept[k], 1), Rat(full[steps - 1], 1))]

\* line 84: np.nonzero(C < 0)[0], the indices of the negative entries
Negative(a) == {k \in DOMAIN a : RNeg(a[k])}
MinOf(S) == CHOOSE k \in S : \A j \in S : k <= j

\* line 85: np.trapz(C[:h] * self.stride * self.dt), unit spacing
Trapz(a, n) ==
    LET e == [k \in 0..(n - 1) |-> RMul(a[k], Rat(stride * dt.n, dt.d))]
        RECURSIVE Acc(_)
        Acc(k) == IF k >= n - 1 THEN Rat(0, 1)
                  ELSE RAdd(RMul(RAdd(e[k], e[k + 1]), Rat(1, 2)), Acc(k + 1))
    IN  Acc(0)

NoOut == [kind |-> "none", exc |-> "", line |-> 0, integral |-> NaN, value |-> NaN]
Raised(exc, line) == [NoOut EXCEPT !.kind = "raised", !.exc = exc, !.line = line]

Series == UNION {[1..n -> 0..MaxPos] : n \in 1..MaxLen}

\* diffusion(Nsteps, dt, stride).compute(x) is called
InitDiff ==
    /\ x \in Series
    /\ Nsteps \in 1..MaxNsteps
    /\ dpc = "start"
    /\ varx = [n |-> 0, d |-> -1] /\ C = <<>> /\ h = -1 /\ dout = NoOut
    /\ args = [maxiter |-> 0] /\ loc = NoLoc /\ pc = "idle" /\ ret = NoRet
    /\ hist = <<>> /\ call = 0 /\ shift = <<>> /\ base = NoBase
    /\ BootIdle

\* lines 77-81: variance, mean, correlation, the retained and normalised part
ComputeCorrelate ==
    /\ dpc = "start"
    /\ varx' = Var(x)
    /\ IF DivisorInRange(Correlate(x), Nsteps - 1)
       THEN C' = Normalised(x, Nsteps) /\ dpc' = "correlated" /\ dout' = dout
       ELSE C' = C /\ dpc' = "raised" /\ dout' = Raised("IndexError", 81)
    /\ UNCHANGED <<x, Nsteps, h>>
    /\ UNCHANGED <<whamVars, bootVars>>

\* line 84: h = np.nonzero(C < 0)[0][0]
ComputeCrossing ==
    /\ dpc = "correlated"
    /\ IF Negative(C) = {}
       THEN h' = h /\ dpc' = "raised" /\ dout' = Raised("IndexError", 84)
       ELSE h' = MinOf(Negative(C)) /\ dpc' = "crossed" /\ dout' = dout
    /\ UNCHANGED <<x, Nsteps, varx, C>>
    /\ UNCHANGED <<whamVars, bootVars>>

\* lines 85-87: the integral up to h and the returned coefficient
ComputeIntegrate ==
    /\ dpc = "crossed"
    /\ dout' = [NoOut EXCEPT !.kind = "returned", !.integral = Trapz(C, h),
                             !.value = RDiv(varx, Trapz(C, h))]
    /\ dpc' = "returned"
    /\ UNCHANGED <<x, Nsteps, varx, C, h>>
    /\ UNCHANGED <<whamVars, bootVars>>

NextDiff == ComputeCorrelate \/ ComputeCrossing \/ ComputeIntegrate

SpecDiff == InitDiff /\ [][NextDiff]_vars

\* ------------------------------- claims about the diffusion estimator
\* C8: when no entry of the normalised autocorrelation is negative, compute
\* raises a DecorrelationError: it neither returns a number nor fails otherwise.
C8_DecorrelationErrorSignalled ==
    (dpc \in {"crossed", "returned", "raised"} /\ C # <<>> /\ Negative(C) = {}) =>
        (dout.kind = "raised" /\ dout.exc = "DecorrelationError")

\* C10: for a series of length N that is not constant and any Nsteps, the
\* sequence retained by line 81 has N entries, entry k is the autocorrelation
\* of the centered series at lag k over that at lag 0, and entry 0 is 1.
C10_LagIndexing ==
    (dpc # "start" /\ AutoCorr(x, 0) # 0) =>
        /\ DOMAIN C = 0..(Len(x) - 1)
        /\ \A k \in DOMAIN C :
              REq(C[k], RDiv(Rat(AutoCorr(x, k), 1), Rat(AutoCorr(x, 0), 1)))
        /\ REq(C[0], Rat(1, 1))

\* C11: whenever compute finds a crossing index h and returns, the integral
\* over the lags [0, h) is strictly positive and the returned coefficient
\* varx / integral is a finite number, also when h = 1.
C11_IntegralPositive ==
    dpc = "returned" =>
        /\ IsFinite(dout.integral) /\ dout.integral.n > 0
        /\ IsFinite(dout.value)

====
